---------------------------- MODULE Spec2Model ----------------------------
(***************************************************************************)
(* E.164 phone normalization (lib/phoneNormalization): the country         *)
(* calling-code registry, normalizePhoneNumber and formatPhoneForDisplay;   *)
(* validatePhoneRealtime and the PhoneInput handlers                        *)
(* (components/ui/phone-input); the contact form of ProfileEditForm saved   *)
(* by AccountSettings.handleSaveContact.                                    *)
(*                                                                         *)
(* A string is a sequence of one-character strings; null and undefined    *)
(* are the value NULL.                                                     *)
(***************************************************************************)
EXTENDS Integers, Sequences, FiniteSets, TLC

VARIABLES
    rawPhone,               \* argument rawPhone of the current call
    selectedCountryAlpha2,  \* argument selectedCountryAlpha2 of the current call
    result,                 \* value returned by the current call (NoResult before it)
    prev,                   \* the caller's previous call: [rawPhone, hint, result]
    origin,                 \* how the caller formed the current arguments
    pc,                     \* position of the current call: "entry" ... "done"
    depth,                  \* number of self re-invocations so far (stepwise run)
    iters,                  \* trunk-loop iterations so far (stepwise run)
    detectedCountry,        \* local detectedCountry, initially countryData (stepwise run)
    nationalNumber,         \* local nationalNumber (stepwise run)
    validationState,        \* value returned by validatePhoneRealtime
    display,                \* value returned by formatPhoneForDisplay
    registry,               \* the module-level tables of lib/phoneNormalization
    value,                  \* contact form: the phone field
    countryCode,            \* contact form: the countryCode field
    editingSection,         \* AccountSettings: the section being edited, or NULL
    clientData,             \* AccountSettings: the client's stored contact details
    payload,                \* the last update sent by handleSaveContact
    appended,               \* digits a typing caller has appended to its input
    timers,                 \* PhoneInput: pending debounce timers, each with its captured props
    delivered,              \* PhoneInput: the last state passed to onValidationChange
    lastEvent               \* PhoneInput: the event handled last

vars == <<rawPhone, selectedCountryAlpha2, result, prev, origin,
          pc, depth, iters, detectedCountry, nationalNumber,
          validationState, display, registry,
          value, countryCode, editingSection, clientData, payload,
          appended, timers, delivered, lastEvent>>

callVars == <<prev, origin>>
runVars  == <<depth, iters, detectedCountry, nationalNumber>>
viewVars == <<validationState, display>>
formVars == <<value, countryCode, editingSection, clientData, payload>>
inputVars == <<timers, delivered, lastEvent>>
libVars  == <<rawPhone, selectedCountryAlpha2, result, prev, origin,
              pc, depth, iters, detectedCountry, nationalNumber,
              validationState, display, appended>>

NULL      == <<"null">>   \* null / undefined / no match: its element is not a character
NoCountry == [undefined |-> TRUE]   \* a lookup that found no entry
NoResult  == [success |-> FALSE, error |-> <<>>, code |-> "NOT_RETURNED"]
NoPrev    == [rawPhone |-> NULL, hint |-> <<>>, result |-> NoResult]
NoPayload == [phone |-> NULL, country_code |-> <<>>, error |-> FALSE, sent |-> FALSE]

-----------------------------------------------------------------------------
(* Bounds of the explored inputs *)

MaxBodyLen == 10   \* longest generated digit body
MaxZeros   == 2    \* most leading zeros put in front of a body
MaxDepth   == 3    \* cap of the re-invocation counter of the stepwise run
MaxAppended == 2   \* most digits a typing caller appends, one call per digit
MaxSuffix  == 10   \* longest run of further digits looked ahead

-----------------------------------------------------------------------------
(* Characters and string helpers *)

DigitChars == {"0", "1", "2", "3", "4", "5", "6", "7", "8", "9"}

WhitespaceChars == {" "}

\* s.startsWith(p)
StartsWith(s, p) ==
    /\ Len(p) <= Len(s)
    /\ \A i \in 1..Len(p) : s[i] = p[i]

\* s.slice(n)
Slice(s, n) == SubSeq(s, n + 1, Len(s))

\* s.replace(/\D/g, '')
StripNonDigits(s) == SelectSeq(s, LAMBDA ch : ch \in DigitChars)

\* s.replace('+', ''): only the first '+' is removed
RemoveFirstPlus(s) ==
    IF \E i \in 1..Len(s) : s[i] = "+"
    THEN LET k == CHOOSE i \in 1..Len(s) :
                     /\ s[i] = "+"
                     /\ \A j \in 1..(i - 1) : s[j] # "+"
         IN SubSeq(s, 1, k - 1) \o SubSeq(s, k + 1, Len(s))
    ELSE s

\* s.trim()
RECURSIVE TrimStart(_)
TrimStart(s) ==
    IF s # <<>> /\ Head(s) \in WhitespaceChars THEN TrimStart(Tail(s)) ELSE s

RECURSIVE TrimEnd(_)
TrimEnd(s) ==
    IF s # <<>> /\ s[Len(s)] \in WhitespaceChars
    THEN TrimEnd(SubSeq(s, 1, Len(s) - 1))
    ELSE s

Trim(s) == TrimEnd(TrimStart(s))

UpperChar(ch) ==
    CASE ch = "p" -> "P"
      [] ch = "t" -> "T"
      [] ch = "g" -> "G"
      [] ch = "b" -> "B"
      [] ch = "u" -> "U"
      [] ch = "s" -> "S"
      [] ch = "x" -> "X"
      [] OTHER    -> ch

\* s.toUpperCase()
ToUpperCase(s) == [i \in 1..Len(s) |-> UpperChar(s[i])]

-----------------------------------------------------------------------------
(* The registry *)

CountryEntry(code, a2, a3, nm, mn, mx) ==
    [callingCode |-> code, alpha2 |-> a2, alpha3 |-> a3, name |-> nm,
     minNationalLength |-> mn, maxNationalLength |-> mx]

PT == <<"P", "T">>
GB == <<"G", "B">>
ZA == <<"Z", "A">>
TH == <<"T", "H">>
US == <<"U", "S">>

\* Object.values order (insertion order of the literal)
RegistryOrder == <<PT, GB, ZA, TH, US>>

COUNTRY_CALLING_CODES_sharedCode ==
    (PT :> CountryEntry(<<"+", "3", "5", "1">>, PT, "PRT", "Portugal", 9, 9)) @@
    (GB :> CountryEntry(<<"+", "4", "4">>, GB, "GBR", "United Kingdom", 10, 10)) @@
    (ZA :> CountryEntry(<<"+", "2", "7">>, ZA, "ZAF", "South Africa", 9, 9)) @@
    (TH :> CountryEntry(<<"+", "2", "7">>, TH, "THA", "Thailand", 9, 9)) @@
    (US :> CountryEntry(<<"+", "1">>, US, "USA", "United States", 10, 10))

COUNTRY_CALLING_CODES ==
    (PT :> CountryEntry(<<"+", "3", "5", "1">>, PT, "PRT", "Portugal", 9, 9)) @@
    (GB :> CountryEntry(<<"+", "4", "4">>, GB, "GBR", "United Kingdom", 10, 10)) @@
    (ZA :> CountryEntry(<<"+", "2", "7">>, ZA, "ZAF", "South Africa", 9, 9)) @@
    (TH :> CountryEntry(<<"+", "6", "6">>, TH, "THA", "Thailand", 9, 9)) @@
    (US :> CountryEntry(<<"+", "1">>, US, "USA", "United States", 10, 10))

RegistryValues == [i \in 1..Len(RegistryOrder) |-> COUNTRY_CALLING_CODES[RegistryOrder[i]]]

\* country.callingCode.replace('+', '')
CallingDigits(country) == RemoveFirstPlus(country.callingCode)

\* forEach assignment: a later entry with the same digits overwrites an earlier one
CALLING_CODE_TO_COUNTRY ==
    [code \in {CallingDigits(RegistryValues[i]) : i \in 1..Len(RegistryValues)} |->
        LET last == CHOOSE i \in 1..Len(RegistryValues) :
                        /\ CallingDigits(RegistryValues[i]) = code
                        /\ \A j \in (i + 1)..Len(RegistryValues) :
                               CallingDigits(RegistryValues[j]) # code
        IN RegistryValues[last]]

\* stable insertion of x into a sequence ordered longest first
RECURSIVE InsertByLength(_, _)
InsertByLength(sorted, x) ==
    IF sorted = <<>> THEN <<x>>
    ELSE IF Len(sorted[Len(sorted)]) >= Len(x)
         THEN Append(sorted, x)
         ELSE Append(InsertByLength(SubSeq(sorted, 1, Len(sorted) - 1), x),
                     sorted[Len(sorted)])

RECURSIVE SortLongestFirst(_)
SortLongestFirst(codes) ==
    IF codes = <<>> THEN <<>>
    ELSE InsertByLength(SortLongestFirst(SubSeq(codes, 1, Len(codes) - 1)),
                        codes[Len(codes)])

SORTED_CALLING_CODES_withoutShortest ==
    LET all == SortLongestFirst([i \in 1..Len(RegistryValues) |->
                                    CallingDigits(RegistryValues[i])])
    IN SubSeq(all, 1, Len(all) - 1)

SORTED_CALLING_CODES ==
    SortLongestFirst([i \in 1..Len(RegistryValues) |-> CallingDigits(RegistryValues[i])])

\* first code of SORTED_CALLING_CODES that digits starts with, or NULL
findCallingCodePrefix(digits) ==
    IF \E i \in 1..Len(SORTED_CALLING_CODES) : StartsWith(digits, SORTED_CALLING_CODES[i])
    THEN SORTED_CALLING_CODES[
             CHOOSE i \in 1..Len(SORTED_CALLING_CODES) :
                 /\ StartsWith(digits, SORTED_CALLING_CODES[i])
                 /\ \A j \in 1..(i - 1) : ~StartsWith(digits, SORTED_CALLING_CODES[j])]
    ELSE NULL

\* the three module-level tables as they stand once the module is loaded
LoadedRegistry ==
    [COUNTRY_CALLING_CODES   |-> COUNTRY_CALLING_CODES,
     CALLING_CODE_TO_COUNTRY |-> CALLING_CODE_TO_COUNTRY,
     SORTED_CALLING_CODES    |-> SORTED_CALLING_CODES]

-----------------------------------------------------------------------------
(* normalizePhoneNumber *)

\* PhoneNormalizationError
Failure(c, msg) == [success |-> FALSE, error |-> msg, code |-> c]

\* the call ends in an exception instead of a return value
Threw(kind) == [thrown |-> kind]

\* CALLING_CODE_TO_COUNTRY[matchedCode]
countryOfCode(matchedCode) ==
    IF matchedCode \in DOMAIN CALLING_CODE_TO_COUNTRY
    THEN CALLING_CODE_TO_COUNTRY[matchedCode]
    ELSE NoCountry

\* variant: the fallback names another registered country
FallbackAlpha2_otherCountry == GB

\* variant: the fallback names a country the registry lacks
FallbackAlpha2_unregistered == <<"X", "X">>

\* the country substituted for an unknown selectedCountryAlpha2
FallbackAlpha2 == PT

\* const hasPlus = rawPhone.trim().startsWith('+')
hasPlusOf(raw) == StartsWith(Trim(raw), <<"+">>)

\* variant: the strip keeps '+' characters
cleanedOf_keepsPlus(raw) ==
    SelectSeq(Trim(raw), LAMBDA ch : ch \in DigitChars \cup {"+"})

\* cleaned = rawPhone.trim().replace(/\D/g, '')
cleanedOf(raw) == StripNonDigits(Trim(raw))

\* variant: a matched code is cut off but the selected country is kept
unmatchedPrefix_dropsDigit(cleaned, selected) ==
    [country |-> selected, nationalNumber |-> Slice(cleaned, 1)]

\* '+' without a registered calling code: keep the selected country, all digits national
unmatchedPrefix(cleaned, selected) ==
    [country |-> selected, nationalNumber |-> cleaned]

detectCountry_keepsSelected(hasPlus, cleaned, selected) ==
    IF hasPlus /\ findCallingCodePrefix(cleaned) # NULL
    THEN [country |-> selected,
          nationalNumber |-> Slice(cleaned, Len(findCallingCodePrefix(cleaned)))]
    ELSE [country |-> selected, nationalNumber |-> cleaned]

\* calling-code detection: the resolved country and the candidate national number
detectCountry(hasPlus, cleaned, selected) ==
    IF hasPlus
    THEN LET matchedCode == findCallingCodePrefix(cleaned)
         IN IF matchedCode # NULL
            THEN [country |-> countryOfCode(matchedCode),
                  nationalNumber |-> Slice(cleaned, Len(matchedCode))]
            ELSE unmatchedPrefix(cleaned, selected)
    ELSE [country |-> selected, nationalNumber |-> cleaned]

\* variant: the loop condition lacks the length test
trunkLoopCond_anyLength(national, country) == StartsWith(national, <<"0">>)

\* condition of the trunk-zero loop
trunkLoopCond(national, country) ==
    /\ StartsWith(national, <<"0">>)
    /\ Len(national) > country.minNationalLength

trunkLoopBody_two(national) == Slice(national, 2)

\* body of the trunk-zero loop
trunkLoopBody(national) == Slice(national, 1)

\* variant: an if in place of the while
stripTrunkZeros_once(national, country) ==
    IF trunkLoopCond(national, country) THEN trunkLoopBody(national) ELSE national

\* while (cond) nationalNumber = nationalNumber.slice(1)
RECURSIVE stripTrunkZeros(_, _)
stripTrunkZeros(national, country) ==
    IF trunkLoopCond(national, country)
    THEN stripTrunkZeros(trunkLoopBody(national), country)
    ELSE national

\* variant: the calling digits' length is cut off without the startsWith test
repairTooLong_unconditional(national, country) ==
    IF Len(national) > country.minNationalLength
    THEN Slice(national, Len(CallingDigits(country)))
    ELSE national

\* the trimming attempted inside the too-long branch
repairTooLong(national, country) ==
    IF /\ Len(national) > country.minNationalLength
       /\ StartsWith(national, CallingDigits(country))
    THEN Slice(national, Len(CallingDigits(country)))
    ELSE national

\* variant: the bare calling digits are used, without the '+'
buildE164_withoutPlus(country, national) == CallingDigits(country) \o national

\* const e164 = `${detectedCountry.callingCode}${nationalNumber}`
buildE164(country, national) == country.callingCode \o national

\* PhoneNormalizationResult
Success(country, national) ==
    [success |-> TRUE,
     e164 |-> buildE164(country, national),
     phoneCode |-> country.callingCode,
     contactNumber |-> national,
     phoneCountryCode |-> country.alpha2]

\* e164Digits.length < 6 || e164Digits.length > 15
e164OutOfRange(e164) ==
    \/ Len(StripNonDigits(e164)) < 6
    \/ Len(StripNonDigits(e164)) > 15

\* variant: <= in place of <
tooShort_orEqual(national, country) == Len(national) <= country.minNationalLength

\* nationalNumber.length < detectedCountry.minNationalLength
tooShort(national, country) == Len(national) < country.minNationalLength

\* variant: the length is compared with the E.164 bound of the whole number
tooLong_oneOverOnly(national, country) == Len(national) = country.maxNationalLength + 1

tooLong_e164Bound(national, country) == Len(national) > 15

\* nationalNumber.length > detectedCountry.maxNationalLength
tooLong(national, country) == Len(national) > country.maxNationalLength

\* variant: the number of digits is hard-coded
tooShortMessage_fixedDigits(country) ==
    <<"Phone number too short for ", country.name, ". Expected at least ", 9, " digits.">>

\* `Phone number too short for ${name}. Expected at least ${minNationalLength} digits.`
tooShortMessage(country) ==
    <<"Phone number too short for ", country.name,
      ". Expected at least ", country.minNationalLength, " digits.">>

\* `Phone number too long for ${name}. Expected at most ${maxNationalLength} digits.`
tooLongMessage(country) ==
    <<"Phone number too long for ", country.name,
      ". Expected at most ", country.maxNationalLength, " digits.">>

\* variant: the result is built without any of the length checks
validateAndBuild_unvalidated(country, national) == Success(country, national)

\* steps 3 to 5 and the return value, from the candidate left by the trunk loop
validateAndBuild(country, national) ==
    IF tooShort(national, country)
    THEN Failure("TOO_SHORT", tooShortMessage(country))
    ELSE LET trimmed == IF tooLong(national, country)
                        THEN repairTooLong(national, country)
                        ELSE national
         IN IF tooLong(trimmed, country)
            THEN Failure("TOO_LONG", tooLongMessage(country))
            ELSE IF e164OutOfRange(buildE164(country, trimmed))
                 THEN Failure("INVALID_FORMAT", <<"Invalid phone number format">>)
                 ELSE Success(country, trimmed)

\* the function body once countryData is known
normalizeWithCountry(raw, selected) ==
    LET hasPlus == hasPlusOf(raw)
        cleaned == cleanedOf(raw)
    IN IF Len(cleaned) = 0
       THEN Failure("INVALID_INPUT", <<"Phone number contains no digits">>)
       ELSE LET d == detectCountry(hasPlus, cleaned, selected)
            IN IF d.country = NoCountry
               THEN Threw("TypeError")   \* detectedCountry.minNationalLength of undefined
               ELSE validateAndBuild(d.country,
                                     stripTrunkZeros(d.nationalNumber, d.country))

\* !rawPhone || typeof rawPhone !== 'string'
isMissing(raw) == raw = NULL \/ raw = <<>>

RECURSIVE normalizePhoneNumber(_, _)
normalizePhoneNumber(raw, alpha2) ==
    IF isMissing(raw)
    THEN Failure("INVALID_INPUT", <<"Phone number is required">>)
    ELSE IF ToUpperCase(alpha2) \notin DOMAIN COUNTRY_CALLING_CODES
         THEN normalizePhoneNumber(raw, FallbackAlpha2)
         ELSE normalizeWithCountry(raw, COUNTRY_CALLING_CODES[ToUpperCase(alpha2)])

-----------------------------------------------------------------------------
(* validatePhoneRealtime (components/ui/phone-input) *)

PhoneValidationState(valid, partially, msg, entered, required) ==
    [isValid |-> valid, isPartiallyValid |-> partially, message |-> msg,
     digitsEntered |-> entered, digitsRequired |-> required]

NoValidation == PhoneValidationState(FALSE, FALSE, <<"not validated">>, 0, 0)

\* !countryData
countryUnknown(alpha2) == ToUpperCase(alpha2) \notin DOMAIN COUNTRY_CALLING_CODES

notEnoughInput_two(digitsOnly) == Len(digitsOnly) < 2

\* digitsOnly.length < 3
notEnoughInput(digitsOnly) == Len(digitsOnly) < 3

isTooShort_anyLength(r) == r.code \in {"TOO_SHORT", "TOO_LONG"}

\* result.code === 'TOO_SHORT'
isTooShort(r) == r.code = "TOO_SHORT"

\* needed === 1 ? `1 more digit needed` : `${needed} more digits needed`
neededMessage(needed) ==
    IF needed = 1 THEN <<"1 more digit needed">> ELSE <<needed, " more digits needed">>

\* excess === 1 ? `Remove 1 digit` : `Remove ${excess} digits`
excessMessage(excess) ==
    IF excess = 1 THEN <<"Remove 1 digit">> ELSE <<"Remove ", excess, " digits">>

\* the returns that follow the call of normalizePhoneNumber
stateOfResult(r, digitsOnly, countryData) ==
    LET digitsRequired == countryData.minNationalLength
        maxDigits      == countryData.maxNationalLength
        digitsEntered  == Len(digitsOnly)
    IN IF "thrown" \in DOMAIN r
       THEN r
       ELSE IF r.success
       THEN PhoneValidationState(TRUE, TRUE, NULL, Len(r.contactNumber), digitsRequired)
       ELSE IF isTooShort(r)
       THEN PhoneValidationState(FALSE, TRUE, neededMessage(digitsRequired - digitsEntered),
                                 digitsEntered, digitsRequired)
       ELSE IF r.code = "TOO_LONG"
       THEN PhoneValidationState(FALSE, FALSE, excessMessage(digitsEntered - maxDigits),
                                 digitsEntered, digitsRequired)
       ELSE PhoneValidationState(FALSE, FALSE,
                                 IF r.error = <<>> THEN <<"Invalid format">> ELSE r.error,
                                 digitsEntered, digitsRequired)

\* the call reaches `const result = normalizePhoneNumber(rawPhone, countryAlpha2)`
callsNormalizer(raw, alpha2) ==
    ~countryUnknown(alpha2) /\ ~notEnoughInput(StripNonDigits(raw))

validatePhoneRealtime(raw, alpha2) ==
    LET digitsOnly == StripNonDigits(raw)
    IN IF countryUnknown(alpha2)
       THEN PhoneValidationState(FALSE, FALSE, <<"Invalid country">>, Len(digitsOnly), 9)
       ELSE LET countryData == COUNTRY_CALLING_CODES[ToUpperCase(alpha2)]
            IN IF notEnoughInput(digitsOnly)
               THEN PhoneValidationState(FALSE, TRUE, NULL, Len(digitsOnly),
                                         countryData.minNationalLength)
               ELSE stateOfResult(normalizePhoneNumber(raw, alpha2), digitsOnly, countryData)

-----------------------------------------------------------------------------
(* formatPhoneForDisplay *)

RECURSIVE groupByThree_fromRight(_)
groupByThree_fromRight(digits) ==
    IF Len(digits) <= 3 THEN digits
    ELSE groupByThree_fromRight(SubSeq(digits, 1, Len(digits) - 3))
             \o <<" ">> \o SubSeq(digits, Len(digits) - 2, Len(digits))

\* contactNumber.replace(/(\d{3})(?=\d)/g, '$1 ') on a string of digits
RECURSIVE groupByThree(_)
groupByThree(digits) ==
    IF Len(digits) <= 3 THEN digits
    ELSE SubSeq(digits, 1, 3) \o <<" ">> \o groupByThree(Slice(digits, 3))

\* the call reaches `normalizePhoneNumber(e164, 'PT')`
parsesForDisplay(e164) == StartsWith(e164, <<"+">>)

formatPhoneForDisplay(e164) ==
    IF ~parsesForDisplay(e164) THEN e164
    ELSE LET r == normalizePhoneNumber(e164, PT)
         IN IF "thrown" \in DOMAIN r THEN r
            ELSE IF ~r.success THEN e164
            ELSE Trim(r.phoneCode \o <<" ">> \o groupByThree(r.contactNumber))

-----------------------------------------------------------------------------
(* Inputs *)

Zeros(k) == [i \in 1..k |-> "0"]

\* the first n characters of the pattern p repeated
Body(p, n) == [i \in 1..n |-> p[((i - 1) % Len(p)) + 1]]

BodyPatterns ==
    { <<"9", "1", "2", "3", "4", "5", "6", "7", "8">>,
      <<"3", "5", "1", "9", "1", "2", "3", "4", "5", "6", "7", "8">>,
      <<"0">> }

Leads == { <<>>, <<"+">>, <<" ", "+">>, <<"-", "+">> }

Prefixes ==
    { <<>>, <<"3", "5", "1">>, <<"4", "4">>, <<"2", "7">>, <<"6", "6">>, <<"1">>, <<"9">> }

Separators == { <<>>, <<" ">> }

\* the worked examples of the documentation
Examples ==
    { <<"+", "3", "5", "1", " ", "9", "1", "2", " ", "3", "4", "5", " ", "6", "7", "8">>,
      <<"0", "9", "1", "2", "3", "4", "5", "6", "7", "8">>,
      <<"1", "2", "3", "4", "5">>,
      <<"+", "1", "2", "3", "4", "5", "6", "7", "8", "9", "0", "1", "2", "3", "4", "5", "6">> }

RawInputs ==
    {NULL} \cup Examples \cup
    { lead \o pre \o sep \o Zeros(z) \o Body(p, n) :
        lead \in Leads, pre \in Prefixes, sep \in Separators,
        z \in 0..MaxZeros, p \in BodyPatterns, n \in 0..MaxBodyLen }

Hints == { PT, GB, ZA, TH, US, <<"p", "t">>, <<"X", "X">>, <<>> }

-----------------------------------------------------------------------------
(* Callers: each action is one complete call of normalizePhoneNumber *)

Init ==
    /\ rawPhone \in RawInputs
    /\ selectedCountryAlpha2 \in Hints
    /\ result = NoResult
    /\ prev = NoPrev
    /\ origin = "input"
    /\ pc = "entry"
    /\ depth = 0
    /\ iters = 0
    /\ detectedCountry = NoCountry
    /\ nationalNumber = <<>>
    /\ validationState = NoValidation
    /\ display = NULL
    /\ registry = LoadedRegistry
    /\ value = <<>>
    /\ countryCode = ZA
    /\ editingSection = NULL
    /\ clientData = [phone |-> NULL, countryCode |-> ZA]
    /\ payload = NoPayload
    /\ appended = 0
    /\ timers = {}
    /\ delivered = NoValidation
    /\ lastEvent = "none"

\* normalizePhoneNumber(rawPhone, selectedCountryAlpha2)
Normalize ==
    /\ pc = "entry"
    /\ result' = normalizePhoneNumber(rawPhone, selectedCountryAlpha2)
    /\ pc' = "done"
    /\ UNCHANGED <<rawPhone, selectedCountryAlpha2, prev, origin>>
    /\ UNCHANGED runVars
    /\ UNCHANGED <<viewVars, registry, formVars, appended, inputVars>>

\* a caller feeds the canonical value back in, under any country
\* (formatPhoneForDisplay, the blur rewrite followed by re-validation)
Renormalize(hint) ==
    /\ pc = "done"
    /\ origin = "input"
    /\ result.success
    /\ prev' = [rawPhone |-> rawPhone, hint |-> selectedCountryAlpha2, result |-> result]
    /\ rawPhone' = result.e164
    /\ selectedCountryAlpha2' = hint
    /\ result' = normalizePhoneNumber(result.e164, hint)
    /\ origin' = "e164"
    /\ UNCHANGED pc
    /\ UNCHANGED runVars
    /\ UNCHANGED <<viewVars, registry, formVars, appended, inputVars>>

\* the same caller retries the input with a trunk zero written in front
NormalizeTrunkPrefixed ==
    /\ pc = "done"
    /\ origin = "input"
    /\ rawPhone # NULL
    /\ prev' = [rawPhone |-> rawPhone, hint |-> selectedCountryAlpha2, result |-> result]
    /\ rawPhone' = <<"0">> \o rawPhone
    /\ result' = normalizePhoneNumber(<<"0">> \o rawPhone, selectedCountryAlpha2)
    /\ origin' = "trunk"
    /\ UNCHANGED <<selectedCountryAlpha2, pc>>
    /\ UNCHANGED runVars
    /\ UNCHANGED <<viewVars, registry, formVars, appended, inputVars>>

\* validatePhoneRealtime(rawPhone, selectedCountryAlpha2); result keeps the
\* value returned by the call of normalizePhoneNumber the validator makes, if any
ValidateRealtime ==
    /\ pc = "entry"
    /\ rawPhone # NULL
    /\ validationState' = validatePhoneRealtime(rawPhone, selectedCountryAlpha2)
    /\ result' = IF callsNormalizer(rawPhone, selectedCountryAlpha2)
                 THEN normalizePhoneNumber(rawPhone, selectedCountryAlpha2)
                 ELSE result
    /\ pc' = "validated"
    /\ UNCHANGED <<rawPhone, selectedCountryAlpha2, prev, origin, display>>
    /\ UNCHANGED runVars
    /\ UNCHANGED <<registry, formVars, appended, inputVars>>

\* formatPhoneForDisplay(rawPhone); result keeps the value returned by the
\* call normalizePhoneNumber(rawPhone, 'PT') the formatter makes, if any
FormatForDisplay ==
    /\ pc = "entry"
    /\ rawPhone # NULL
    /\ display' = formatPhoneForDisplay(rawPhone)
    /\ selectedCountryAlpha2' = PT
    /\ result' = IF parsesForDisplay(rawPhone)
                 THEN normalizePhoneNumber(rawPhone, PT)
                 ELSE result
    /\ pc' = "formatted"
    /\ UNCHANGED <<rawPhone, prev, origin, validationState>>
    /\ UNCHANGED runVars
    /\ UNCHANGED <<registry, formVars, appended, inputVars>>

\* a caller displays the canonical value of its successful call:
\* formatPhoneForDisplay(result.e164)
FormatCanonical ==
    /\ pc = "done"
    /\ origin = "input"
    /\ result.success
    /\ prev' = [rawPhone |-> rawPhone, hint |-> selectedCountryAlpha2, result |-> result]
    /\ rawPhone' = result.e164
    /\ selectedCountryAlpha2' = PT
    /\ display' = formatPhoneForDisplay(result.e164)
    /\ result' = IF parsesForDisplay(result.e164)
                 THEN normalizePhoneNumber(result.e164, PT)
                 ELSE NoResult
    /\ origin' = "canonical"
    /\ pc' = "formatted"
    /\ UNCHANGED validationState
    /\ UNCHANGED runVars
    /\ UNCHANGED <<registry, formVars, appended, inputVars>>

\* the same caller retries the input written as its bare digits:
\* normalizePhoneNumber(cleaned, selectedCountryAlpha2)
NormalizeBareDigits ==
    /\ pc = "done"
    /\ origin = "input"
    /\ rawPhone # NULL
    /\ hasPlusOf(rawPhone)
    /\ prev' = [rawPhone |-> rawPhone, hint |-> selectedCountryAlpha2, result |-> result]
    /\ rawPhone' = cleanedOf(rawPhone)
    /\ result' = normalizePhoneNumber(cleanedOf(rawPhone), selectedCountryAlpha2)
    /\ origin' = "digits"
    /\ UNCHANGED <<selectedCountryAlpha2, pc>>
    /\ UNCHANGED runVars
    /\ UNCHANGED <<viewVars, registry, formVars, appended, inputVars>>

Next ==
    \/ Normalize
    \/ NormalizeBareDigits
    \/ \E hint \in Hints : Renormalize(hint)
    \/ NormalizeTrunkPrefixed
    \/ ValidateRealtime
    \/ FormatForDisplay
    \/ FormatCanonical

Spec == Init /\ [][Next]_vars

-----------------------------------------------------------------------------
(* A caller validating while the user types: validatePhoneRealtime is called *)
(* again after every appended digit                                           *)

AppendableDigits == {"0", "1", "9"}

TypingInit ==
    /\ Init
    /\ rawPhone # NULL
    /\ ~countryUnknown(selectedCountryAlpha2)

\* validatePhoneRealtime(rawPhone + digit, selectedCountryAlpha2); prev keeps
\* the arguments and the state returned by the call before
AppendDigit(digit) ==
    /\ pc = "validated"
    /\ appended < MaxAppended
    /\ prev' = [rawPhone |-> rawPhone, hint |-> selectedCountryAlpha2,
                result |-> validationState]
    /\ rawPhone' = rawPhone \o <<digit>>
    /\ validationState' = validatePhoneRealtime(rawPhone \o <<digit>>, selectedCountryAlpha2)
    /\ result' = IF callsNormalizer(rawPhone \o <<digit>>, selectedCountryAlpha2)
                 THEN normalizePhoneNumber(rawPhone \o <<digit>>, selectedCountryAlpha2)
                 ELSE NoResult
    /\ appended' = appended + 1
    /\ origin' = "typed"
    /\ UNCHANGED <<selectedCountryAlpha2, pc, display>>
    /\ UNCHANGED runVars
    /\ UNCHANGED <<registry, formVars, inputVars>>

TypingNext ==
    \/ ValidateRealtime
    \/ \E digit \in AppendableDigits : AppendDigit(digit)

TypingSpec == TypingInit /\ [][TypingNext]_vars

-----------------------------------------------------------------------------
(* One call of normalizePhoneNumber, statement by statement *)

RunInit == Init

\* if (!rawPhone || typeof rawPhone !== 'string') return INVALID_INPUT
RunEntry ==
    /\ pc = "entry"
    /\ IF isMissing(rawPhone)
       THEN /\ result' = Failure("INVALID_INPUT", <<"Phone number is required">>)
            /\ pc' = "done"
       ELSE /\ pc' = "lookup"
            /\ UNCHANGED result
    /\ UNCHANGED <<rawPhone, selectedCountryAlpha2>>
    /\ UNCHANGED callVars
    /\ UNCHANGED runVars
    /\ UNCHANGED <<viewVars, registry, formVars, appended, inputVars>>

\* countryData found: let detectedCountry = countryData
RunLookup ==
    /\ pc = "lookup"
    /\ ToUpperCase(selectedCountryAlpha2) \in DOMAIN COUNTRY_CALLING_CODES
    /\ detectedCountry' = COUNTRY_CALLING_CODES[ToUpperCase(selectedCountryAlpha2)]
    /\ pc' = "clean"
    /\ UNCHANGED <<rawPhone, selectedCountryAlpha2, result, depth, iters, nationalNumber>>
    /\ UNCHANGED callVars
    /\ UNCHANGED <<viewVars, registry, formVars, appended, inputVars>>

\* countryData undefined: return normalizePhoneNumber(rawPhone, 'PT')
RunFallback ==
    /\ pc = "lookup"
    /\ ToUpperCase(selectedCountryAlpha2) \notin DOMAIN COUNTRY_CALLING_CODES
    /\ depth < MaxDepth
    /\ selectedCountryAlpha2' = FallbackAlpha2
    /\ depth' = depth + 1
    /\ pc' = "entry"
    /\ UNCHANGED <<rawPhone, result, iters, detectedCountry, nationalNumber>>
    /\ UNCHANGED callVars
    /\ UNCHANGED <<viewVars, registry, formVars, appended, inputVars>>

\* trim, strip, the no-digits return, and calling-code detection; an undefined
\* detectedCountry throws at the first test of the loop condition that follows
RunClean ==
    /\ pc = "clean"
    /\ IF Len(cleanedOf(rawPhone)) = 0
       THEN /\ result' = Failure("INVALID_INPUT", <<"Phone number contains no digits">>)
            /\ pc' = "done"
            /\ UNCHANGED <<detectedCountry, nationalNumber>>
       ELSE LET d == detectCountry(hasPlusOf(rawPhone), cleanedOf(rawPhone), detectedCountry)
            IN /\ detectedCountry' = d.country
               /\ nationalNumber' = d.nationalNumber
               /\ IF d.country = NoCountry
                  THEN /\ result' = Threw("TypeError")
                       /\ pc' = "threw"
                  ELSE /\ pc' = "trunk"
                       /\ UNCHANGED result
    /\ UNCHANGED <<rawPhone, selectedCountryAlpha2, depth, iters>>
    /\ UNCHANGED callVars
    /\ UNCHANGED <<viewVars, registry, formVars, appended, inputVars>>

\* one iteration of the trunk-zero loop
RunTrunkIteration ==
    /\ pc = "trunk"
    /\ trunkLoopCond(nationalNumber, detectedCountry)
    /\ nationalNumber' = trunkLoopBody(nationalNumber)
    /\ iters' = iters + 1
    /\ UNCHANGED <<rawPhone, selectedCountryAlpha2, result, pc, depth, detectedCountry>>
    /\ UNCHANGED callVars
    /\ UNCHANGED <<viewVars, registry, formVars, appended, inputVars>>

\* the loop condition fails: steps 3 to 5 and the return
RunValidate ==
    /\ pc = "trunk"
    /\ ~trunkLoopCond(nationalNumber, detectedCountry)
    /\ result' = validateAndBuild(detectedCountry, nationalNumber)
    /\ pc' = "done"
    /\ UNCHANGED <<rawPhone, selectedCountryAlpha2>>
    /\ UNCHANGED callVars
    /\ UNCHANGED runVars
    /\ UNCHANGED <<viewVars, registry, formVars, appended, inputVars>>

RunNext ==
    \/ RunEntry
    \/ RunLookup
    \/ RunFallback
    \/ RunClean
    \/ RunTrunkIteration
    \/ RunValidate

\* the call is synchronous: a started call runs every statement to its return
RunSpec == RunInit /\ [][RunNext]_vars /\ WF_vars(RunNext)

\* the statement-by-statement run returns what the function returns
RunAgrees ==
    pc = "done" =>
        result = normalizePhoneNumber(rawPhone, selectedCountryAlpha2)

-----------------------------------------------------------------------------
(* PhoneInput: the blur handler and the debounced validation effect.  A      *)
(* change of the props re-renders the component and runs the effect of the  *)
(* new render (cleanup of the old one first) before any timer can expire.   *)

\* the options of the country select of ProfileEditForm, the parent of the input
COUNTRIES == <<PT, ZA, GB, TH, US>>

blurValue_ignoresPlus(v, country) ==
    IF v # <<>>
    THEN LET r == normalizePhoneNumber(v, country)
         IN IF r.success /\ r.e164 # v THEN r.e164 ELSE v
    ELSE v

\* handleBlur: the value the field holds after the handler (onChange(result.e164) or none)
blurValue(v, country) ==
    IF v # <<>> /\ ~StartsWith(v, <<"+">>)
    THEN LET r == normalizePhoneNumber(v, country)
         IN IF r.success /\ r.e164 # v THEN r.e164 ELSE v
    ELSE v

\* !value || value.length < 3
shortValue(v) == v = <<>> \/ Len(v) < 3

\* the state set at once for a short value
shortValueState(v, country) ==
    PhoneValidationState(FALSE, TRUE, NULL, Len(StripNonDigits(v)),
                         IF country \in DOMAIN COUNTRY_CALLING_CODES
                         THEN COUNTRY_CALLING_CODES[country].minNationalLength
                         ELSE 9)

\* the timer an effect run sets: its callback has captured value and countryCode
Timer(v, country) == [value |-> v, countryCode |-> country]

cleanup_keepsTimer(pending, v, country) == pending

\* return () => clearTimeout(timer), of the effect run for (v, country)
cleanup(pending, v, country) == pending \ {Timer(v, country)}

\* values the parent may pass as the value prop
InputValues ==
    { <<>>,
      <<"8", "2">>,
      <<"8", "2", "1", "2", "3", "4", "5", "6", "7">>,
      <<"0", "8", "2", "1", "2", "3", "4", "5", "6", "7">>,
      <<"2", "7", "8", "2", "1", "2", "3", "4", "5", "6">>,
      <<"+", "2", "7", " ", "8", "2", " ", "1", "2", "3", " ", "4", "5", "6", "7">>,
      <<"8", "2", "1", "2", "3", "4", "5", "6", "7", "8", "9", "0", "1", "2">> }

\* the mounted component: the first effect run has handled the empty value
InputInit ==
    /\ rawPhone = NULL
    /\ selectedCountryAlpha2 = PT
    /\ result = NoResult
    /\ prev = NoPrev
    /\ origin = "input"
    /\ pc = "entry"
    /\ depth = 0
    /\ iters = 0
    /\ detectedCountry = NoCountry
    /\ nationalNumber = <<>>
    /\ display = NULL
    /\ registry = LoadedRegistry
    /\ appended = 0
    /\ value = <<>>
    /\ countryCode \in {COUNTRIES[i] : i \in 1..Len(COUNTRIES)}
    /\ editingSection = "contact"
    /\ clientData = [phone |-> NULL, countryCode |-> countryCode]
    /\ payload = NoPayload
    /\ validationState = shortValueState(<<>>, countryCode)
    /\ timers = {}
    /\ delivered = NoValidation
    /\ lastEvent = "mount"

\* what a PhoneInput event leaves alone
InputFrame ==
    /\ UNCHANGED <<rawPhone, selectedCountryAlpha2, result, prev, pc, display, appended>>
    /\ UNCHANGED runVars
    /\ UNCHANGED <<registry, editingSection, clientData, payload>>

\* the props become (v, country): cleanup of the last effect run, then the effect
PropsChange(v, country) ==
    /\ value' = v
    /\ countryCode' = country
    /\ IF shortValue(v)
       THEN /\ validationState' = shortValueState(v, country)
            /\ timers' = cleanup(timers, value, countryCode)
       ELSE /\ timers' = cleanup(timers, value, countryCode) \cup {Timer(v, country)}
            /\ UNCHANGED validationState
    /\ UNCHANGED delivered

\* handleChange: onChange(e.target.value), and the parent passes the new value
ChangeValue(v) ==
    /\ v # value
    /\ PropsChange(v, countryCode)
    /\ origin' = "input"
    /\ lastEvent' = "change"
    /\ InputFrame

\* the parent passes another countryCode
ChangeCountry(country) ==
    /\ country # countryCode
    /\ PropsChange(value, country)
    /\ lastEvent' = "country"
    /\ UNCHANGED origin
    /\ InputFrame

\* handleBlur
Blur ==
    /\ IF blurValue(value, countryCode) # value
       THEN /\ PropsChange(blurValue(value, countryCode), countryCode)
            /\ origin' = "blur"
       ELSE UNCHANGED <<value, countryCode, validationState, timers, delivered, origin>>
    /\ lastEvent' = "blur"
    /\ InputFrame

\* the 300 ms timer expires: validate, setValidationState, onValidationChange
TimerFires(t) ==
    /\ t \in timers
    /\ validationState' = validatePhoneRealtime(t.value, t.countryCode)
    /\ delivered' = validatePhoneRealtime(t.value, t.countryCode)
    /\ timers' = timers \ {t}
    /\ lastEvent' = "timer"
    /\ UNCHANGED <<value, countryCode, origin>>
    /\ InputFrame

InputNext ==
    \/ \E v \in InputValues : ChangeValue(v)
    \/ \E i \in 1..Len(COUNTRIES) : ChangeCountry(COUNTRIES[i])
    \/ Blur
    \/ \E t \in timers : TimerFires(t)

\* a pending timer expires after 300 ms
InputSpec ==
    InputInit /\ [][InputNext]_vars /\ WF_vars(\E t \in timers : TimerFires(t))

-----------------------------------------------------------------------------
(* The contact form: ProfileEditForm with PhoneInput, saved by              *)
(* AccountSettings.handleSaveContact.  The form reads no validation state   *)
(* of the PhoneInput, so the input's validation effect is left out.         *)

\* values the user may leave in the phone field
TypedValues ==
    { <<>>,
      <<"1", "2">>,
      <<"1", "2", "3", "4", "5", "6">>,
      <<"a", "b", "c", "d", "e", "f">>,
      <<"8", "2", "1", "2", "3", "4", "5", "6", "7">>,
      <<"0", "8", "2", " ", "1", "2", "3", " ", "4", "5", "6", "7">>,
      <<"+", "2", "7", "8", "2", "1", "2", "3", "4", "5", "6", "7">>,
      <<"+", "2", "7", " ", "8", "2", "1", "2", "3">>,
      <<"8", "2", "1", "2", "3", "4", "5", "6", "7", "8", "9", "0", "1", "2">> }

\* contactSchema: phone z.string().min(6), countryCode z.string().min(2)
contactSchemaAccepts(data) ==
    /\ Len(data.phone) >= 6
    /\ Len(data.countryCode) >= 2

FormInit ==
    /\ rawPhone = NULL
    /\ selectedCountryAlpha2 = PT
    /\ result = NoResult
    /\ prev = NoPrev
    /\ origin = "input"
    /\ pc = "entry"
    /\ depth = 0
    /\ iters = 0
    /\ detectedCountry = NoCountry
    /\ nationalNumber = <<>>
    /\ validationState = NoValidation
    /\ display = NULL
    /\ registry = LoadedRegistry
    /\ value = <<>>
    /\ countryCode = ZA
    /\ editingSection = NULL
    /\ clientData \in { [phone |-> NULL, countryCode |-> COUNTRIES[i]] : i \in 1..Len(COUNTRIES) }
    /\ payload = NoPayload
    /\ appended = 0
    /\ timers = {}
    /\ delivered = NoValidation
    /\ lastEvent = "none"

\* the Edit button: the form mounts with defaultValues from clientData
StartEditing ==
    /\ editingSection # "contact"
    /\ editingSection' = "contact"
    /\ value' = IF clientData.phone = NULL THEN <<>> ELSE clientData.phone
    /\ countryCode' = IF clientData.countryCode = <<>> THEN ZA ELSE clientData.countryCode
    /\ UNCHANGED <<clientData, payload, registry>>
    /\ UNCHANGED <<libVars, inputVars>>

\* PhoneInput.handleChange: onChange(e.target.value)
TypePhone(typed) ==
    /\ editingSection = "contact"
    /\ value' = typed
    /\ UNCHANGED <<countryCode, editingSection, clientData, payload, registry>>
    /\ UNCHANGED <<libVars, inputVars>>

\* the country select: field.onChange(code)
SelectCountry(code) ==
    /\ editingSection = "contact"
    /\ countryCode' = code
    /\ UNCHANGED <<value, editingSection, clientData, payload, registry>>
    /\ UNCHANGED <<libVars, inputVars>>

\* PhoneInput.handleBlur
BlurPhone ==
    /\ editingSection = "contact"
    /\ value' = blurValue(value, countryCode)
    /\ UNCHANGED <<countryCode, editingSection, clientData, payload, registry>>
    /\ UNCHANGED <<libVars, inputVars>>

\* onCancel
CancelEditing ==
    /\ editingSection = "contact"
    /\ editingSection' = NULL
    /\ UNCHANGED <<value, countryCode, clientData, payload, registry>>
    /\ UNCHANGED <<libVars, inputVars>>

\* contactForm.handleSubmit(handleSubmit) -> onSave = handleSaveContact;
\* failed is the outcome of the update request
SubmitContact(failed) ==
    /\ editingSection = "contact"
    /\ LET data == [phone |-> value, countryCode |-> countryCode]
       IN IF ~contactSchemaAccepts(data)
          THEN UNCHANGED <<editingSection, clientData, payload>>
          ELSE /\ payload' = [phone |-> data.phone, country_code |-> data.countryCode,
                              error |-> failed, sent |-> TRUE]
               /\ IF failed
                  THEN UNCHANGED <<editingSection, clientData>>
                  ELSE /\ clientData' = [phone |-> data.phone,
                                         countryCode |-> data.countryCode]
                       /\ editingSection' = NULL
    /\ UNCHANGED <<value, countryCode, registry>>
    /\ UNCHANGED <<libVars, inputVars>>

FormNext ==
    \/ StartEditing
    \/ \E typed \in TypedValues : TypePhone(typed)
    \/ \E i \in 1..Len(COUNTRIES) : SelectCountry(COUNTRIES[i])
    \/ BlurPhone
    \/ CancelEditing
    \/ \E failed \in BOOLEAN : SubmitContact(failed)

FormSpec == FormInit /\ [][FormNext]_vars

-----------------------------------------------------------------------------
(* Properties *)

Returned == pc = "done"

IsSuccess(r) == DOMAIN r = {"success", "e164", "phoneCode", "contactNumber", "phoneCountryCode"}
                    /\ r.success
IsFailure(r) == DOMAIN r = {"success", "error", "code"} /\ ~r.success

AllDigits(s) == \A i \in 1..Len(s) : s[i] \in DigitChars

DigitCount(s) == Cardinality({i \in 1..Len(s) : s[i] \in DigitChars})

Supported(alpha2) == ToUpperCase(alpha2) \in DOMAIN COUNTRY_CALLING_CODES

CountryOf(alpha2) == COUNTRY_CALLING_CODES[ToUpperCase(alpha2)]

\* C1: normalizing the e164 of a successful call again, under any country hint,
\* succeeds and gives the same e164.
C1_Idempotent ==
    (Returned /\ origin = "e164") =>
        (result.success /\ result.e164 = prev.result.e164)

\* C2: the contactNumber of every Success has a length within
\* [minNationalLength, maxNationalLength] of the country named by phoneCountryCode.
C2_ContactLengthInRange ==
    (Returned /\ result.success) =>
        LET c == COUNTRY_CALLING_CODES[result.phoneCountryCode]
        IN /\ Len(result.contactNumber) >= c.minNationalLength
           /\ Len(result.contactNumber) <= c.maxNationalLength

\* C3: every Success has e164 = phoneCode + contactNumber, phoneCode being the
\* registry calling code (with '+') of phoneCountryCode and contactNumber all digits.
C3_E164IsCodePlusContact ==
    (Returned /\ result.success) =>
        /\ result.phoneCountryCode \in DOMAIN COUNTRY_CALLING_CODES
        /\ result.phoneCode = COUNTRY_CALLING_CODES[result.phoneCountryCode].callingCode
        /\ Head(result.phoneCode) = "+"
        /\ AllDigits(result.contactNumber)
        /\ result.e164 = result.phoneCode \o result.contactNumber

\* a Success whose country was detected from the input, against the hint, for an
\* input that carried separators
C3_Witness ==
    /\ Returned /\ result.success
    /\ origin = "input"
    /\ Supported(selectedCountryAlpha2)
    /\ result.phoneCountryCode # ToUpperCase(selectedCountryAlpha2)
    /\ Len(rawPhone) > Len(result.e164)

\* C4: the e164 of every Success has between 6 and 15 digits.
C4_E164DigitCount ==
    (Returned /\ result.success) =>
        (DigitCount(result.e164) >= 6 /\ DigitCount(result.e164) <= 15)

\* a Success reached through the too-long trimming: the shortest e164 there is
C4_Witness ==
    /\ Returned /\ result.success
    /\ DigitCount(result.e164) = 10
    /\ result.phoneCountryCode = PT

HasEmbeddedCode(raw) ==
    /\ raw # NULL
    /\ StartsWith(Trim(raw), <<"+">>)
    /\ \E k \in DOMAIN COUNTRY_CALLING_CODES :
           StartsWith(StripNonDigits(raw), Tail(COUNTRY_CALLING_CODES[k].callingCode))

\* C5: for an input that starts with '+' and whose digits start with a registered
\* calling code, every hint gives the same result, and a Success carries the code
\* and the country of the matched calling code.
C5_EmbeddedCodeOverridesHint ==
    (Returned /\ HasEmbeddedCode(rawPhone)) =>
        /\ \A hint \in Hints : normalizePhoneNumber(rawPhone, hint) = result
        /\ result.success =>
               \E k \in DOMAIN COUNTRY_CALLING_CODES :
                   /\ StartsWith(StripNonDigits(rawPhone),
                                 Tail(COUNTRY_CALLING_CODES[k].callingCode))
                   /\ result.phoneCountryCode = k
                   /\ result.phoneCode = COUNTRY_CALLING_CODES[k].callingCode

\* a Success for an input with an embedded code, under a hint naming another country
C5_Witness ==
    /\ Returned /\ origin = "input"
    /\ HasEmbeddedCode(rawPhone)
    /\ selectedCountryAlpha2 = GB
    /\ result.success
    /\ result.phoneCountryCode = PT

\* C6: under a hint the registry lacks, the call returns exactly what it returns
\* under 'PT'.
C6_UnknownHintFallsBackToPT ==
    (Returned /\ ~Supported(selectedCountryAlpha2)) =>
        result = normalizePhoneNumber(rawPhone, <<"P", "T">>)

\* a Success under an unknown hint
C6_Witness ==
    /\ Returned /\ origin = "input"
    /\ selectedCountryAlpha2 = <<"X", "X">>
    /\ result.success
    /\ result.phoneCountryCode = PT
    /\ ~hasPlusOf(rawPhone)

\* C7: every call ends, with a Success or a Failure and never by throwing; it
\* re-invokes itself at most once, and the trunk loop runs at most once per digit.
C7_Total ==
    /\ [](pc # "threw")
    /\ [](depth <= 1)
    /\ [](iters <= (IF rawPhone = NULL THEN 0 ELSE DigitCount(rawPhone)))
    /\ [](Returned => (IsSuccess(result) \/ IsFailure(result)))
    /\ <>Returned

\* a returned call that fell back once and stripped trunk zeros
C7_Witness ==
    /\ Returned
    /\ depth = 1
    /\ iters >= 2
    /\ result.success

\* C8: a string of exactly minNationalLength digits normalizes, under its supported
\* country, to a Success whose contactNumber has minNationalLength digits.
C8_MinLengthDigitsSucceed ==
    (/\ Returned
     /\ Supported(selectedCountryAlpha2)
     /\ rawPhone # NULL
     /\ AllDigits(rawPhone)
     /\ Len(rawPhone) = CountryOf(selectedCountryAlpha2).minNationalLength) =>
        /\ result.success
        /\ Len(result.contactNumber) = CountryOf(selectedCountryAlpha2).minNationalLength

\* such a string with leading zeros, kept whole
C8_Witness ==
    /\ Returned /\ origin = "input"
    /\ selectedCountryAlpha2 = GB
    /\ rawPhone # NULL
    /\ AllDigits(rawPhone)
    /\ Len(rawPhone) = 10
    /\ StartsWith(rawPhone, <<"0", "0">>)
    /\ result.success
    /\ result.contactNumber = rawPhone

\* C9: when a digit string v normalizes successfully under a supported country,
\* '0' + v succeeds under it with the same contactNumber.
C9_TrunkZeroEquivalence ==
    (/\ Returned /\ origin = "trunk"
     /\ Supported(selectedCountryAlpha2)
     /\ AllDigits(prev.rawPhone)
     /\ prev.result.success
     /\ Len(prev.rawPhone) >= CountryOf(selectedCountryAlpha2).minNationalLength) =>
        /\ result.success
        /\ result.contactNumber = prev.result.contactNumber

\* v itself began with a trunk zero, so two are stripped from '0' + v
C9_Witness ==
    /\ Returned /\ origin = "trunk"
    /\ selectedCountryAlpha2 = PT
    /\ AllDigits(prev.rawPhone)
    /\ StartsWith(prev.rawPhone, <<"0">>)
    /\ prev.result.success
    /\ result.success
    /\ Len(rawPhone) = Len(result.contactNumber) + 2

NoDigit(raw) == raw = NULL \/ \A i \in 1..Len(raw) : raw[i] \notin DigitChars

\* C10: the call returns INVALID_INPUT exactly for a rawPhone that is null,
\* undefined, empty or without any digit character, whatever the hint.
C10_InvalidInputIffNoDigit ==
    Returned =>
        ((~result.success /\ result.code = "INVALID_INPUT") <=> NoDigit(rawPhone))

\* a '+' with white space only, rejected under an unknown hint
C10_Witness ==
    /\ Returned
    /\ rawPhone = <<" ", "+">>
    /\ selectedCountryAlpha2 = <<"X", "X">>
    /\ ~result.success
    /\ result.code = "INVALID_INPUT"

HasDigit(raw) == ~NoDigit(raw)

\* the candidate national number reached the length checks of this run
ReachedLengthChecks == Returned /\ HasDigit(rawPhone)

\* C11: the call returns TOO_SHORT exactly when the input has a digit and the
\* candidate left by detection and trunk stripping is shorter than
\* minNationalLength of the resolved country.
C11_TooShortIffBelowMin ==
    Returned =>
        ((~result.success /\ result.code = "TOO_SHORT") <=>
            (/\ HasDigit(rawPhone)
             /\ Len(nationalNumber) < detectedCountry.minNationalLength))

\* '12345' under PT; and a '+44' input cut down to a short GB candidate under PT
C11_Witness ==
    /\ Returned
    /\ ~result.success /\ result.code = "TOO_SHORT"
    /\ \/ (rawPhone = <<"1", "2", "3", "4", "5">> /\ selectedCountryAlpha2 = PT)
       \/ (hasPlusOf(rawPhone) /\ detectedCountry.alpha2 = GB
              /\ selectedCountryAlpha2 = PT /\ Len(nationalNumber) = 9)

\* the digits of the number the call would assemble: calling digits and candidate
AssembledDigits == Len(Tail(detectedCountry.callingCode)) + Len(nationalNumber)

\* C12 as stated: an input whose assembled number has more than 15 digits, such as
\* '+1234567890123456' under PT, is rejected with INVALID_FORMAT.
C12_OverlongIsInvalidFormat ==
    (ReachedLengthChecks /\ AssembledDigits > 15) =>
        (~result.success /\ result.code = "INVALID_FORMAT")

\* C12 amended: such an input is rejected with TOO_LONG, the national length check
\* coming before the E.164 check.
C12_OverlongIsTooLong ==
    (ReachedLengthChecks /\ AssembledDigits > 15) =>
        (~result.success /\ result.code = "TOO_LONG")

\* the documented example, matched as a US number
C12_Witness ==
    /\ Returned
    /\ rawPhone = <<"+", "1", "2", "3", "4", "5", "6", "7", "8", "9", "0",
                    "1", "2", "3", "4", "5", "6">>
    /\ selectedCountryAlpha2 = PT
    /\ detectedCountry.alpha2 = US
    /\ AssembledDigits = 16
    /\ result.code = "TOO_LONG"

\* the number a length rejection's message states
StatedDigits(r) == r.error[4]

\* C13 as stated: a TOO_SHORT message states the missing digits (min - length) and
\* a TOO_LONG message the excess digits (length - max) of the candidate.
C13_MessageStatesDifference ==
    (Returned /\ ~result.success) =>
        /\ result.code = "TOO_SHORT" =>
               StatedDigits(result) = detectedCountry.minNationalLength - Len(nationalNumber)
        /\ result.code = "TOO_LONG" =>
               StatedDigits(result) = Len(nationalNumber) - detectedCountry.maxNationalLength

\* C13 amended: a TOO_SHORT message names the resolved country and states its
\* minNationalLength, a TOO_LONG message names it and states its maxNationalLength.
C13_MessageStatesLimit ==
    (Returned /\ ~result.success) =>
        /\ result.code = "TOO_SHORT" =>
               /\ StatedDigits(result) = detectedCountry.minNationalLength
               /\ result.error[2] = detectedCountry.name
        /\ result.code = "TOO_LONG" =>
               /\ StatedDigits(result) = detectedCountry.maxNationalLength
               /\ result.error[2] = detectedCountry.name

\* a too-short GB candidate detected under the hint PT: 10 is stated, 1 is missing
C13_Witness ==
    /\ Returned
    /\ ~result.success /\ result.code = "TOO_SHORT"
    /\ selectedCountryAlpha2 = PT
    /\ detectedCountry.alpha2 = GB
    /\ Len(nationalNumber) = 9
    /\ StatedDigits(result) = 10

\* the candidate after at most one removal of the resolved calling digits
RepairedOnce ==
    IF StartsWith(nationalNumber, Tail(detectedCountry.callingCode))
    THEN SubSeq(nationalNumber, Len(detectedCountry.callingCode), Len(nationalNumber))
    ELSE nationalNumber

\* C20: a candidate longer than maxNationalLength loses the resolved calling digits
\* once iff it begins with them, and the call returns TOO_LONG exactly when it is
\* still longer than the maximum; so the hinted country's calling digits followed
\* by a national number of valid length give the Success of that number alone.
C20_TooLongAfterOneRepair ==
    /\ (ReachedLengthChecks /\ Len(nationalNumber) > detectedCountry.maxNationalLength) =>
           /\ (~result.success /\ result.code = "TOO_LONG") <=>
                  Len(RepairedOnce) > detectedCountry.maxNationalLength
           /\ result.success => result.contactNumber = RepairedOnce
    /\ (/\ Returned /\ rawPhone # NULL /\ AllDigits(rawPhone)
        /\ Supported(selectedCountryAlpha2)
        /\ StartsWith(rawPhone, Tail(CountryOf(selectedCountryAlpha2).callingCode))) =>
           LET c == CountryOf(selectedCountryAlpha2)
               v == SubSeq(rawPhone, Len(c.callingCode), Len(rawPhone))
           IN (Len(v) >= c.minNationalLength /\ Len(v) <= c.maxNationalLength) =>
                  /\ result.success
                  /\ result = normalizePhoneNumber(v, selectedCountryAlpha2)

\* '351' + a nine-digit number under PT, repaired to that number
C20_Witness ==
    /\ Returned
    /\ selectedCountryAlpha2 = PT
    /\ AllDigits(rawPhone)
    /\ Len(rawPhone) = 12
    /\ StartsWith(rawPhone, <<"3", "5", "1">>)
    /\ Len(nationalNumber) = 12
    /\ result.success
    /\ result.contactNumber = SubSeq(rawPhone, 4, 12)

\* the states returned by validatePhoneRealtime
Validated == pc = "validated"

IsValidState(v)   == v.isValid
IsPartial(v)      == ~v.isValid /\ v.isPartiallyValid /\ v.message # NULL
IsEmptyState(v)   == ~v.isValid /\ v.isPartiallyValid /\ v.message = NULL
IsInvalidState(v) == ~v.isValid /\ ~v.isPartiallyValid

\* the validator's state is the one the normalizer's outcome calls for
ClassifiedAs(v, r) ==
    /\ IsValidState(v) <=> IsSuccess(r)
    /\ (~v.isValid /\ v.isPartiallyValid) <=> (IsFailure(r) /\ r.code = "TOO_SHORT")
    /\ IsInvalidState(v) <=> (IsFailure(r) /\ r.code # "TOO_SHORT")

\* C14 as stated: for every input with 3 or more digits and every country hint,
\* validatePhoneRealtime returns VALID exactly when normalizePhoneNumber
\* succeeds on the same arguments, PARTIAL exactly when it fails with
\* TOO_SHORT, and INVALID exactly when it fails with another code.
C14_ClassifiesEveryHint ==
    (Validated /\ DigitCount(rawPhone) >= 3) =>
        ClassifiedAs(validationState,
                     normalizePhoneNumber(rawPhone, selectedCountryAlpha2))

\* C14: for every input with 3 or more digits, under a hint that names a
\* registered country the validator's state is the one the normalizer's
\* outcome calls for; under a hint that names no registered country the
\* validator returns INVALID with the message "Invalid country", whatever the
\* normalizer returns.
C14_ClassifiesRegisteredHint ==
    (Validated /\ DigitCount(rawPhone) >= 3) =>
        IF Supported(selectedCountryAlpha2)
        THEN ClassifiedAs(validationState,
                          normalizePhoneNumber(rawPhone, selectedCountryAlpha2))
        ELSE /\ IsInvalidState(validationState)
             /\ validationState.message = <<"Invalid country">>

C14_Witness ==
    /\ Validated
    /\ DigitCount(rawPhone) >= 3
    /\ Supported(selectedCountryAlpha2)
    /\ IsInvalidState(validationState)
    /\ result.code = "TOO_LONG"

\* C15 as stated: for every input with fewer than 3 digits and every country
\* hint, validatePhoneRealtime returns the EMPTY state (not valid, not flagged
\* as an error, no message) without calling the normalizer.
C15_EmptyEveryHint ==
    (Validated /\ DigitCount(rawPhone) < 3) =>
        /\ IsEmptyState(validationState)
        /\ result = NoResult

\* C15: for every input with fewer than 3 digits the normalizer is not called;
\* under a hint that names a registered country the validator returns the
\* EMPTY state, and under any other hint it returns INVALID with the message
\* "Invalid country".
C15_EmptyRegisteredHint ==
    (Validated /\ DigitCount(rawPhone) < 3) =>
        /\ result = NoResult
        /\ IF Supported(selectedCountryAlpha2)
           THEN IsEmptyState(validationState)
           ELSE /\ IsInvalidState(validationState)
                /\ validationState.message = <<"Invalid country">>

C15_Witness ==
    /\ Validated
    /\ DigitCount(rawPhone) = 2
    /\ Supported(selectedCountryAlpha2)
    /\ IsEmptyState(validationState)

\* the country the normalizer resolves for the validated arguments
ResolvedCountry ==
    detectCountry(hasPlusOf(rawPhone), cleanedOf(rawPhone),
                  CountryOf(selectedCountryAlpha2)).country

\* C16: in every PARTIAL state returned by validatePhoneRealtime,
\* digitsRequired is the minimum national length of the resolved country,
\* digitsEntered is at least 3 and less than digitsRequired, and the message
\* reports digitsRequired - digitsEntered more digits needed.
C16_PartialCountsConsistent ==
    (Validated /\ IsPartial(validationState)) =>
        /\ validationState.digitsRequired = ResolvedCountry.minNationalLength
        /\ validationState.digitsEntered >= 3
        /\ validationState.digitsEntered < validationState.digitsRequired
        /\ validationState.message =
               neededMessage(validationState.digitsRequired
                             - validationState.digitsEntered)

\* the states returned by formatPhoneForDisplay; its argument is rawPhone
Formatted == pc = "formatted"

StripSpaces(s) == SelectSeq(s, LAMBDA ch : ch # " ")

\* s is digits in groups of three, left to right, single spaces between them
GroupedInThrees(s) ==
    /\ Len(s) >= 1
    /\ s[Len(s)] # " "
    /\ \A i \in 1..Len(s) : IF i % 4 = 0 THEN s[i] = " " ELSE s[i] \in DigitChars

\* the argument is the e164 of a Success and normalizes successfully
CanonicalArgument ==
    /\ IsSuccess(normalizePhoneNumber(rawPhone, PT))
    /\ \/ origin = "canonical"
       \/ normalizePhoneNumber(rawPhone, PT).e164 = rawPhone

\* C18: for every canonical e164 that normalizes successfully the output of
\* formatPhoneForDisplay is the calling code, one space, and the national
\* digits in groups of three from the left, with exactly the digits of the
\* input in their order; an input that does not start with '+' or does not
\* normalize is returned unchanged.
C18_DisplayFormat ==
    Formatted =>
        LET r == normalizePhoneNumber(rawPhone, PT)
        IN /\ (~StartsWith(rawPhone, <<"+">>) \/ ~IsSuccess(r)) => display = rawPhone
           /\ CanonicalArgument =>
                  LET code == r.phoneCode
                      rest == Slice(display, Len(code) + 1)
                  IN /\ StartsWith(display, code \o <<" ">>)
                     /\ code = CountryOf(r.phoneCountryCode).callingCode
                     /\ GroupedInThrees(rest)
                     /\ StripSpaces(rest) = r.contactNumber
                     /\ StripSpaces(display) = rawPhone

C18_Witness ==
    /\ Formatted
    /\ origin = "canonical"
    /\ IsSuccess(result)
    /\ Len(result.contactNumber) = 10
    /\ display # rawPhone

\* some call has returned to a caller that made a call before it
AfterSeveralCalls == origin # "input" /\ pc \in {"done", "formatted"}

\* C19: in every reachable state the registry and its derived tables equal
\* their initial contents, in which each key equals its entry's alpha2, no
\* two entries share calling-code digits, and minNationalLength is at most
\* maxNationalLength for every entry.
C19_RegistryInvariant ==
    LET byAlpha2 == registry.COUNTRY_CALLING_CODES
        byCode   == registry.CALLING_CODE_TO_COUNTRY
        sorted   == registry.SORTED_CALLING_CODES
    IN /\ registry = LoadedRegistry
       /\ DOMAIN byAlpha2 = {PT, GB, ZA, TH, US}
       /\ \A k \in DOMAIN byAlpha2 :
              /\ byAlpha2[k].alpha2 = k
              /\ byAlpha2[k].minNationalLength <= byAlpha2[k].maxNationalLength
       /\ \A k1, k2 \in DOMAIN byAlpha2 :
              k1 # k2 => CallingDigits(byAlpha2[k1]) # CallingDigits(byAlpha2[k2])
       /\ DOMAIN byCode = {CallingDigits(byAlpha2[k]) : k \in DOMAIN byAlpha2}
       /\ \A k \in DOMAIN byAlpha2 : byCode[CallingDigits(byAlpha2[k])] = byAlpha2[k]
       /\ Len(sorted) = Cardinality(DOMAIN byCode)
       /\ {sorted[i] : i \in 1..Len(sorted)} = DOMAIN byCode
       /\ \A i \in 1..(Len(sorted) - 1) : Len(sorted[i]) >= Len(sorted[i + 1])

C19_Witness ==
    /\ AfterSeveralCalls
    /\ registry = LoadedRegistry
    /\ prev.result.success

\* the update of handleSaveContact was sent / was stored
Submitted == payload.sent
Persisted == payload.sent /\ ~payload.error

\* C17: a phone value is persisted only if normalizePhoneNumber succeeds on it
\* for the selected country and the persisted value is that Success's e164;
\* a value failing with INVALID_INPUT, TOO_LONG or INVALID_FORMAT is never
\* submitted.
C17_SubmissionGate ==
    LET r == normalizePhoneNumber(payload.phone, payload.country_code)
    IN /\ Persisted => (IsSuccess(r) /\ r.e164 = payload.phone)
       /\ Submitted => ~(IsFailure(r) /\
                           r.code \in {"INVALID_INPUT", "TOO_LONG", "INVALID_FORMAT"})

\* what is submitted has passed the schema
SubmittedPassedSchema ==
    Submitted => (Len(payload.phone) >= 6 /\ Len(payload.country_code) >= 2)

\* the trunk loop of the current call has been entered
InOrPastTrunkLoop == pc = "trunk" \/ ReachedLengthChecks

\* C21: every iteration of the trunk loop removes exactly one leading '0' from
\* a candidate longer than the resolved country's minimum; the loop ends when
\* the candidate no longer starts with '0' or is no longer longer than the
\* minimum; so a candidate that entered the loop with at least the minimum
\* number of digits never drops below it, and one of exactly the minimum
\* number of digits is left untouched.
C21_TrunkStripping ==
    /\ [][ (pc = "trunk" /\ nationalNumber' # nationalNumber) =>
              /\ nationalNumber = <<"0">> \o nationalNumber'
              /\ Len(nationalNumber) > detectedCountry.minNationalLength
              /\ iters' = iters + 1 ]_vars
    /\ [][ (pc = "trunk" /\ pc' = "done") =>
              ~(/\ StartsWith(nationalNumber, <<"0">>)
                /\ Len(nationalNumber) > detectedCountry.minNationalLength) ]_vars
    /\ [](InOrPastTrunkLoop =>
              LET min == detectedCountry.minNationalLength
                  before == Len(nationalNumber) + iters
              IN /\ before >= min => Len(nationalNumber) >= min
                 /\ before = min => iters = 0)

C21_Witness ==
    /\ ReachedLengthChecks
    /\ iters = 2
    /\ Len(nationalNumber) = detectedCountry.minNationalLength

\* findCallingCodePrefix(cleaned) has just returned to normalizePhoneNumber
PrefixLookedUp == pc = "trunk" /\ iters = 0 /\ hasPlusOf(rawPhone)

\* the registered calling codes (bare digits) that digits starts with
MatchingCodes(digits) ==
    {CallingDigits(COUNTRY_CALLING_CODES[k]) : k \in DOMAIN COUNTRY_CALLING_CODES}
        \cap {SubSeq(digits, 1, n) : n \in 1..Len(digits)}

\* C22: findCallingCodePrefix(digits) returns the longest registered calling
\* code that is a prefix of digits, and returns none exactly when no
\* registered calling code is a prefix of digits.
C22_LongestPrefix ==
    PrefixLookedUp =>
        LET digits  == cleanedOf(rawPhone)
            matched == findCallingCodePrefix(digits)
        IN /\ matched = NULL <=> MatchingCodes(digits) = {}
           /\ matched # NULL =>
                  /\ matched \in MatchingCodes(digits)
                  /\ \A c \in MatchingCodes(digits) : Len(c) <= Len(matched)
                  /\ CallingDigits(detectedCountry) = matched
                  /\ nationalNumber = Slice(digits, Len(matched))
           /\ matched = NULL => nationalNumber = digits

C22_Witness ==
    /\ PrefixLookedUp
    /\ findCallingCodePrefix(cleanedOf(rawPhone)) = <<"1">>
    /\ detectedCountry.alpha2 = US
    /\ selectedCountryAlpha2 = PT

\* the caller has normalized an input with a leading '+' whose digits start
\* with no registered calling code, and then its bare digits (now rawPhone)
UnknownPlusPrefixRetried ==
    Returned /\ origin = "digits" /\ MatchingCodes(rawPhone) = {}

\* C23 as stated: an input with a leading '+' whose digits start with no
\* registered calling code gets the same result as its bare digits under the
\* same hint.
C23_UnknownPlusPrefixAnyDigits ==
    UnknownPlusPrefixRetried => result = prev.result

\* C23: an input with a leading '+' and at least one digit, whose digits start
\* with no registered calling code, gets the same result as its bare digits
\* under the same hint, all digits being the national number under the hinted
\* country; without any digit both calls fail with INVALID_INPUT.
C23_UnknownPlusPrefix ==
    UnknownPlusPrefixRetried =>
        /\ rawPhone # <<>> => result = prev.result
        /\ rawPhone = <<>> =>
               /\ IsFailure(result) /\ result.code = "INVALID_INPUT"
               /\ IsFailure(prev.result) /\ prev.result.code = "INVALID_INPUT"
        /\ IsSuccess(result) =>
               result.phoneCode = CountryOf(IF Supported(selectedCountryAlpha2)
                                            THEN selectedCountryAlpha2
                                            ELSE FallbackAlpha2).callingCode
        /\ IsFailure(result) => result.code \in {"TOO_SHORT", "TOO_LONG", "INVALID_INPUT"}

C23_Witness ==
    /\ Returned
    /\ origin = "digits"
    /\ MatchingCodes(rawPhone) = {}
    /\ IsSuccess(result)
    /\ result = prev.result
    /\ prev.rawPhone = <<"+">> \o rawPhone

\* the validator has been called again after a digit was appended; prev.result
\* is the state it returned for the input without that digit
Retyped == Validated /\ origin = "typed"

Repeated(digit, k) == [i \in 1..k |-> digit]

\* C24: for every supported country and every input classified PARTIAL there
\* is a finite run of digits that, appended one at a time, leads to an input
\* classified VALID, every input on the way being PARTIAL.
C24_PartialRecoverable ==
    (Validated /\ IsPartial(validationState)) =>
        \E digit \in AppendableDigits : \E k \in 1..MaxSuffix :
            /\ IsValidState(validatePhoneRealtime(rawPhone \o Repeated(digit, k),
                                                  selectedCountryAlpha2))
            /\ \A j \in 1..(k - 1) :
                   IsPartial(validatePhoneRealtime(rawPhone \o Repeated(digit, j),
                                                   selectedCountryAlpha2))

C24_Witness ==
    /\ Validated
    /\ IsPartial(validationState)
    /\ result.code = "TOO_SHORT"
    /\ hasPlusOf(rawPhone)
    /\ selectedCountryAlpha2 = GB
    /\ StartsWith(cleanedOf(rawPhone), <<"3", "5", "1">>)

\* C25: for every supported country, when an input is classified INVALID then
\* the input with one more digit appended is classified INVALID too, the
\* normalizer failing with TOO_LONG or INVALID_FORMAT.
C25_InvalidStaysInvalid ==
    (Retyped /\ IsInvalidState(prev.result)) =>
        /\ IsInvalidState(validationState)
        /\ IsFailure(result)
        /\ result.code \in {"TOO_LONG", "INVALID_FORMAT"}

C25_Witness ==
    /\ Retyped
    /\ IsInvalidState(prev.result)
    /\ IsInvalidState(validationState)
    /\ result.code = "TOO_LONG"
    /\ StartsWith(rawPhone, <<"0">>)

\* position of a state in the order EMPTY < PARTIAL < VALID < INVALID
Rank(v) ==
    IF IsValidState(v) THEN 2
    ELSE IF IsInvalidState(v) THEN 3
    ELSE IF IsEmptyState(v) THEN 0
    ELSE 1

\* C30: for every supported country and every input, appending one digit
\* never moves the classification backwards in EMPTY < PARTIAL < VALID < INVALID.
C30_MonotoneFeedback ==
    Retyped => Rank(validationState) >= Rank(prev.result)

C30_Witness ==
    /\ Retyped
    /\ Rank(prev.result) = 2
    /\ Rank(validationState) = 3

\* no timer is pending and the timer that expired last was set for the props
\* the component has now
Settled == timers = {} /\ lastEvent = "timer"

\* C26: when the blur handler has replaced the value by the e164 of a
\* successful normalization, the debounced validation of that value, under
\* the same or another selected country, yields VALID.
C26_BlurRewriteValid ==
    (Settled /\ origin = "blur") => IsValidState(validationState)

\* C27: once no timer is pending, the state last passed to onValidationChange
\* is the component's own validationState.
C27_ParentInSync ==
    (timers = {} /\ delivered # NoValidation) => delivered = validationState

\* C28: at most one timer is pending, a pending timer is the one set for the
\* current value and countryCode, and an expiring timer commits
\* validatePhoneRealtime of the current value and countryCode to both
\* validationState and onValidationChange.
C28_DebounceCancels ==
    /\ [](Cardinality(timers) <= 1)
    /\ [](\A t \in timers : t = Timer(value, countryCode))
    /\ [][ (lastEvent' = "timer" /\ timers' # timers) =>
              /\ value' = value /\ countryCode' = countryCode
              /\ validationState' = validatePhoneRealtime(value, countryCode)
              /\ delivered' = validationState' ]_vars

C28_Witness ==
    /\ lastEvent = "country"
    /\ Cardinality(timers) = 1
    /\ delivered # NoValidation
    /\ delivered # validatePhoneRealtime(value, countryCode)

\* C29: blur changes the value only when it is non-empty, does not start with
\* '+' and normalizes under the selected country, and then to exactly that
\* e164; in every other case the value is unchanged; a second blur in a row
\* changes nothing.
C29_BlurFrame ==
    [][ lastEvent' = "blur" =>
          LET r == normalizePhoneNumber(value, countryCode)
          IN /\ countryCode' = countryCode
             /\ IF value # <<>> /\ ~StartsWith(value, <<"+">>) /\ IsSuccess(r)
                THEN value' = r.e164
                ELSE value' = value
             /\ lastEvent = "blur" => value' = value ]_vars

C29_Witness ==
    /\ lastEvent = "blur"
    /\ origin = "blur"
    /\ StartsWith(value, <<"+">>)
    /\ Cardinality(timers) = 1

=============================================================================
